---- MODULE Spec2Model ----
(***************************************************************************)
(* PyQwerty Discord bot (bot/src/core/bot.py): the message handler, the    *)
(* trigger policy, the patience tracker and the response dispatcher.       *)
(*                                                                         *)
(* The handlers are asyncio coroutines.  Code between two awaits runs      *)
(* atomically, so every action below is one such segment; a handler that   *)
(* is suspended in an await keeps its position in tasks[t].pc.             *)
(* Probabilities are integer percents; a draw d stands for a value of      *)
(* random.random() in [d/100, (d+1)/100), so "draw < p" is d < p.          *)
(***************************************************************************)
EXTENDS Integers, Sequences, FiniteSets, TLC

VARIABLES now, events, tasks, is_active, base_response_rate,
          allow_long_messages, allow_gifs, patience_enabled,
          last_response_time, message_history, patience_level,
          message_count_since_rage_check, sent, unhandled, validator

vars == <<now, events, tasks, is_active, base_response_rate,
          allow_long_messages, allow_gifs, patience_enabled,
          last_response_time, message_history, patience_level,
          message_count_since_rage_check, sent, unhandled, validator>>

config == <<is_active, base_response_rate, allow_long_messages, allow_gifs,
            patience_enabled>>

(* ---------------------------- bounds ----------------------------------- *)
MaxEvents == 2
MaxTriggerEvents == 2
MaxMoodEvents == 5
MaxHistoryEvents == 27
MaxTasks == 2
MaxTime == 7201
MaxClientEvents == 2
MaxRequests == 3
MaxSerialEvents == 12
MaxWords == 2
MaxCalls == 2

(* ------------------------ program constants ---------------------------- *)
rate_limit_seconds == 30
HistoryLimit == 25
AssessWindow == 8
AssessMinimum == 3
InitialPatience == 70
DefaultRate == 25
MentionProbability == 100
ContentBonus == 30
RecencyBonus == 20
ProbabilityCap == 85
RecencyHours == 2
SecondsPerHour == 3600
MinInterval == 4
MaxInterval == 8
ValidatorParams == 1
ShortenAbove == 15
SentenceAbove == 20
KeptWords == 12
MaxValidWords == 25
LowercasePercent == 80

(* ---------------------------- inputs ----------------------------------- *)
Channels == {"c1", "c2"}
TargetUser == "u1"
Authors == {"u1", "u2"}
Tasks == 1..MaxTasks

\* The instants at which the clock is observed: the two ends of the
\* rate-limit window and of the two-hour recency window.
Instants == {i \in 0..MaxTime : i % (RecencyHours * SecondsPerHour) \in {0, 1, 29, 30}}

Draws == {0, 24, 44, 45, 85}

Min(a, b) == IF a < b THEN a ELSE b
Max(a, b) == IF a > b THEN a ELSE b

\* s[-n:]
LastN(s, n) == SubSeq(s, Max(1, Len(s) - n + 1), Len(s))

\* d[k] = v on a dict
Put(d, k, v) == [x \in DOMAIN d \cup {k} |-> IF x = k THEN v ELSE d[x]]

\* int(token): the tokens the model feeds to int(), and their values.
IntTokens == {"-5", "0", "20", "42", "55", "100", "101", "150"}
ParseInt(tok) ==
    CASE tok = "-5" -> 0 - 5
      [] tok = "0" -> 0
      [] tok = "20" -> 20
      [] tok = "42" -> 42
      [] tok = "55" -> 55
      [] tok = "100" -> 100
      [] tok = "101" -> 101
      [] tok = "150" -> 150

EmptyDict == [x \in {} |-> 0]

NoMsg == [id |-> 0, chan |-> "c1", author |-> "u1", bot |-> FALSE,
          guild |-> TRUE, administrator |-> FALSE, cmd |-> "", arg |-> "",
          mentions |-> "none", question |-> FALSE, gaming |-> FALSE,
          draw |-> 0]

NoResp == [kind |-> "pending", text |-> "", gif |-> FALSE, rest |-> FALSE,
           mention |-> FALSE]

IdleTask == [pc |-> "idle", msg |-> NoMsg, resp |-> NoResp, reply |-> FALSE,
             requests |-> 0, outcome |-> "pending"]

\* The style validator at rest: no text handed to it.
NoValidation == [input |-> << >>, text |-> << >>, calls |-> 0, fallback |-> FALSE]

Init ==
    /\ now = 0
    /\ events = 0
    /\ tasks = [t \in Tasks |-> IdleTask]
    /\ is_active = TRUE
    /\ base_response_rate = DefaultRate
    /\ allow_long_messages = FALSE
    /\ allow_gifs = FALSE
    /\ patience_enabled = TRUE
    /\ last_response_time = EmptyDict
    /\ message_history = EmptyDict
    /\ patience_level = EmptyDict
    /\ message_count_since_rage_check = EmptyDict
    /\ sent = {}
    /\ unhandled = {}
    /\ validator = NoValidation

(* ------------------------- inbound events ------------------------------ *)
\* Ordinary guild messages: every combination of the content features the
\* trigger policy reads, with the entropy draw the handler will consume.
ChatMsgs ==
    { [NoMsg EXCEPT !.chan = c, !.author = a, !.mentions = mn,
                    !.question = q, !.gaming = g, !.draw = d] :
        c \in Channels, a \in Authors, mn \in {"none", "other", "bot"},
        q \in BOOLEAN, g \in BOOLEAN, d \in Draws }

\* Messages on_message drops at once: written by a bot in a guild, or by
\* a user outside a guild.
FilteredMsgs ==
    { [NoMsg EXCEPT !.chan = c, !.bot = b, !.guild = b] :
        c \in Channels, b \in BOOLEAN }

CommandArgs ==
    [pause |-> {""}, resume |-> {""}, status |-> {""}, help |-> {""},
     longmsg |-> {""}, gifs |-> {""}, autopatience |-> {""}, other |-> {""},
     rate |-> {"0", "55", "100", "101", "abc"},
     patience |-> {"-5", "20", "100", "101", "abc"}]

\* Messages whose content starts with '!py'.
\* and the three kinds of sender: the configured admin identity, a guild
\* administrator, and a user who is neither.
Senders == { <<"u1", FALSE>>, <<"u2", TRUE>>, <<"u2", FALSE>> }

AdminMsgs ==
    { [NoMsg EXCEPT !.chan = c, !.author = s[1], !.administrator = s[2],
                    !.cmd = k, !.arg = x] :
        c \in Channels, s \in Senders,
        k \in DOMAIN CommandArgs, x \in UNION {CommandArgs[k2] : k2 \in DOMAIN CommandArgs} }

AllInbound == ChatMsgs \cup FilteredMsgs \cup {m \in AdminMsgs : m.arg \in CommandArgs[m.cmd]}

\* The events of the dispatcher specification: messages of both authors in
\* both channels that are always, or never, answered; dropped messages;
\* and the commands that toggle what the dispatcher reads.
Inbound ==
    { m \in AllInbound :
        IF m.cmd = ""
        THEN /\ m.draw \in {0, 85}
             /\ ~m.gaming
             /\ m.mentions # "other"
             /\ ~(m.mentions = "bot" /\ m.question)
        ELSE /\ m.cmd \in {"gifs", "longmsg", "status"}
             /\ m.chan = "c1"
             /\ m.author = "u1" }

\* The events of the trigger specification: one author's messages with
\* every combination of content features and every draw, and the commands
\* the trigger policy depends on.
TriggerInbound ==
    { m \in AllInbound :
        /\ m.author = "u1" /\ ~m.bot /\ m.guild
        /\ m.cmd \in {"", "pause", "resume", "rate"}
        /\ m.cmd # "" => m.chan = "c1"
        /\ m.arg \in {"", "0", "55", "101", "abc"} }

\* The events of the patience specification: plain messages that the
\* bot may or may not answer, and the commands that touch patience.
MoodInbound ==
    { m \in ChatMsgs : /\ m.author = "u1" /\ m.mentions = "none"
                       /\ ~m.question /\ ~m.gaming /\ m.draw \in {0, 85} }
    \cup { m \in AdminMsgs : /\ m.arg \in CommandArgs[m.cmd]
                             /\ m.cmd \in {"patience", "autopatience"}
                             /\ m.arg \in {"", "20", "101", "abc"}
                             /\ ~(m.author = "u2" /\ m.administrator) }

\* The events of the history specification: one author's plain messages
\* in one channel, which the bot leaves unanswered.
HistoryInbound ==
    { m \in ChatMsgs : /\ m.chan = "c1" /\ m.author = "u1" /\ m.mentions = "none"
                       /\ ~m.question /\ ~m.gaming /\ m.draw = 85 }

\* The events of the client specification: plain messages the bot answers
\* whenever the rate limit allows.
ClientInbound ==
    { m \in ChatMsgs : /\ m.author = "u1" /\ m.mentions = "none"
                       /\ ~m.question /\ ~m.gaming /\ m.draw = 0 }

\* What generate_response can hand back to the response path: None, text
\* that is empty once stripped, or text with or without a [GIF: ...] tag,
\* other words, and a '<@' mention (inside the tag when there are no
\* other words).
GenReplies ==
    { [NoResp EXCEPT !.kind = "none"], [NoResp EXCEPT !.kind = "blank"] } \cup
    { r \in { [NoResp EXCEPT !.kind = "text", !.gif = g, !.rest = x, !.mention = mn] :
                g \in BOOLEAN, x \in BOOLEAN, mn \in BOOLEAN } :
        r.rest \/ r.gif }

\* A failed generation call, and the replies that either fail or are sent.
Failed == { r \in GenReplies : r.kind = "none" }
SentOrFailed ==
    { r \in GenReplies : r.kind = "none" \/ (r.gif /\ ~r.rest /\ ~r.mention) }

\* A failed generation call, and plain text.
ClientReplies == { r \in GenReplies : r.kind = "none" \/ (~r.gif /\ ~r.mention) }

\* What generate_response can hand back to the patience assessment: None
\* or a text.
AssessReplies ==
    { [NoResp EXCEPT !.kind = "none"] } \cup
    { [NoResp EXCEPT !.kind = "text", !.text = x] : x \in {"abc", "", "-5", "42", "150"} }

(* --------------------------- trigger policy ---------------------------- *)
\* bot.py 138-142: a response was recorded in c less than
\* rate_limit_seconds ago.
RateLimited(c) ==
    /\ c \in DOMAIN last_response_time
    /\ now - last_response_time[c] < rate_limit_seconds

\* bot.py 170-176: the bonus for not having responded in a while.
RecencyFactor(c) ==
    IF c \in DOMAIN last_response_time
    THEN IF now - last_response_time[c] > RecencyHours * SecondsPerHour
         THEN RecencyBonus ELSE 0
    ELSE RecencyBonus

\* ResponseProbability without the cap of line 179.
ResponseProbability_NoCap(m) ==
    LET p0 == base_response_rate
        p1 == IF m.mentions = "bot" THEN MentionProbability
              ELSE IF m.mentions # "none" THEN p0 + ContentBonus ELSE p0
        p2 == IF m.question THEN p1 + ContentBonus ELSE p1
        p3 == IF m.gaming THEN p2 + ContentBonus ELSE p2
    IN  p3 + RecencyFactor(m.chan)

\* bot.py 151-179: response_probability, adjustment by adjustment.
ResponseProbability(m) ==
    LET p0 == base_response_rate
        p1 == IF m.mentions = "bot" THEN MentionProbability
              ELSE IF m.mentions # "none" THEN p0 + ContentBonus ELSE p0
        p2 == IF m.question THEN p1 + ContentBonus ELSE p1
        p3 == IF m.gaming THEN p2 + ContentBonus ELSE p2
        p4 == p3 + RecencyFactor(m.chan)
    IN  Min(p4, ProbabilityCap)

\* should_respond answering a direct mention before it looks at the rate
\* limit.
should_respond_MentionFirst(m) ==
    IF m.bot THEN FALSE
    ELSE IF ~is_active THEN FALSE
    ELSE IF m.mentions = "bot" THEN TRUE
    ELSE IF RateLimited(m.chan) THEN FALSE
    ELSE m.draw < ResponseProbability(m)

\* should_respond without the is_active test of lines 130-132.
should_respond_IgnoresPause(m) ==
    IF m.bot THEN FALSE
    ELSE IF RateLimited(m.chan) THEN FALSE
    ELSE m.draw < ResponseProbability(m)

\* bot.py 124-188.
should_respond(m) ==
    IF m.bot THEN FALSE
    ELSE IF ~is_active THEN FALSE
    ELSE IF RateLimited(m.chan) THEN FALSE
    ELSE m.draw < ResponseProbability(m)

\* on_message 84-85 once should_respond has answered: either the handler
\* ends, or generate_and_send_response builds its prompt and suspends in
\* the generation call.
AfterDecision(t, m) ==
    IF should_respond(m)
    THEN [tasks EXCEPT ![t] = [IdleTask EXCEPT !.pc = "generate",
                                               !.msg = [m EXCEPT !.draw = 0],
                                               !.requests = 1]]
    ELSE [tasks EXCEPT ![t] = IdleTask]

(* ------------------------------ actions -------------------------------- *)
\* The clock moves on to a later instant.
Tick ==
    /\ \E i \in Instants : i > now /\ now' = i
    /\ UNCHANGED <<validator, events, tasks, config, last_response_time, message_history,
                   patience_level, message_count_since_rage_check, sent,
                   unhandled>>

\* The gateway hands the next message event to a fresh on_message task.  A
\* task runs its first segment before the gateway reads the next event.
Dispatch(inbound, limit) ==
    /\ events < limit
    /\ \A t \in Tasks : tasks[t].pc # "start"
    /\ \E t \in Tasks :
        /\ tasks[t].pc = "idle"
        /\ \A u \in Tasks : u < t => tasks[u].pc # "idle"
        /\ \E m \in inbound :
            tasks' = [tasks EXCEPT ![t] = [IdleTask EXCEPT
                                              !.pc = "start",
                                              !.msg = [m EXCEPT !.id = events + 1]]]
    /\ events' = events + 1
    /\ UNCHANGED <<validator, now, config, last_response_time, message_history,
                   patience_level, message_count_since_rage_check, sent,
                   unhandled>>

\* Ignored telling bot-authored messages only.
Ignored_BotsOnly(m) == m.bot

\* on_message 72: `message.author.bot or not message.guild`.
Ignored(m) == m.bot \/ ~m.guild

\* on_message 71-73.
on_message_ignored(t) ==
    LET m == tasks[t].msg IN
    /\ tasks[t].pc = "start"
    /\ Ignored(m)
    /\ tasks' = [tasks EXCEPT ![t] = IdleTask]
    /\ UNCHANGED <<validator, now, events, config, last_response_time, message_history,
                   patience_level, message_count_since_rage_check, sent,
                   unhandled>>

\* Authorized with no test of the sender.
Authorized_Anyone(m) == TRUE

\* handle_admin_command 436-439.
Authorized(m) == m.author = TargetUser \/ m.administrator

\* What channel.send is given by a command: nothing for an unknown command.
AckKind(m) ==
    CASE m.cmd \in {"pause", "resume", "longmsg", "gifs", "autopatience"} -> "ack"
      [] m.cmd \in {"status", "help"} -> "info"
      [] m.cmd \in {"rate", "patience"} ->
            IF m.arg \in IntTokens /\ 0 <= ParseInt(m.arg) /\ ParseInt(m.arg) <= 100
            THEN "ack" ELSE "error"
      [] OTHER -> "none"

\* PatienceAfterCommand without the range check of line 490.
PatienceAfterCommand_Unchecked(m) ==
    IF m.cmd = "patience" /\ m.arg \in IntTokens
    THEN Put(patience_level, m.chan, ParseInt(m.arg))
    ELSE patience_level

\* handle_admin_command 486-496: the patience map after the command.
PatienceAfterCommand(m) ==
    IF /\ m.cmd = "patience"
       /\ m.arg \in IntTokens
       /\ 0 <= ParseInt(m.arg)
       /\ ParseInt(m.arg) <= 100
    THEN Put(patience_level, m.chan, ParseInt(m.arg))
    ELSE patience_level

\* RateAfterCommand without the range check of line 463.
RateAfterCommand_Unchecked(m) ==
    IF m.cmd = "rate" /\ m.arg \in IntTokens
    THEN ParseInt(m.arg)
    ELSE base_response_rate

\* handle_admin_command 460-469: base_response_rate after the command.
RateAfterCommand(m) ==
    IF /\ m.cmd = "rate"
       /\ m.arg \in IntTokens
       /\ 0 <= ParseInt(m.arg)
       /\ ParseInt(m.arg) <= 100
    THEN ParseInt(m.arg)
    ELSE base_response_rate

\* on_message 75-78 with handle_admin_command 431-518.  The mutation comes
\* before the acknowledgement is awaited, and nothing follows the await;
\* delivered tells whether the platform accepted the acknowledgement.  No
\* try block surrounds the send, so its error leaves on_message.
handle_admin_command(t) ==
    LET m == tasks[t].msg IN
    /\ tasks[t].pc = "start"
    /\ ~Ignored(m)
    /\ m.cmd # ""
    /\ tasks' = [tasks EXCEPT ![t] = IdleTask]
    /\ IF ~Authorized(m)
       THEN UNCHANGED <<config, patience_level, sent, unhandled>>
       ELSE /\ is_active' = CASE m.cmd = "pause" -> FALSE
                              [] m.cmd = "resume" -> TRUE
                              [] OTHER -> is_active
            /\ base_response_rate' = RateAfterCommand(m)
            /\ allow_long_messages' = IF m.cmd = "longmsg" THEN ~allow_long_messages
                                      ELSE allow_long_messages
            /\ allow_gifs' = IF m.cmd = "gifs" THEN ~allow_gifs ELSE allow_gifs
            /\ patience_enabled' = IF m.cmd = "autopatience" THEN ~patience_enabled
                                   ELSE patience_enabled
            /\ patience_level' = PatienceAfterCommand(m)
            /\ \E delivered \in BOOLEAN :
                /\ sent' = IF delivered /\ AckKind(m) # "none"
                           THEN sent \cup {[id |-> m.id, chan |-> m.chan,
                                            kind |-> AckKind(m),
                                            reply |-> FALSE, at |-> now]}
                           ELSE sent
                /\ unhandled' = IF ~delivered /\ AckKind(m) # "none"
                                THEN unhandled \cup {m.id}
                                ELSE unhandled
    /\ UNCHANGED <<validator, now, events, last_response_time, message_history,
                   message_count_since_rage_check>>

\* KeepRecent slicing [:25] instead of [-25:].
KeepRecent_Oldest(h) ==
    IF Len(h) > HistoryLimit THEN SubSeq(h, 1, HistoryLimit) ELSE h

\* KeepRecent keeping two entries.
KeepRecent_Two(h) ==
    IF Len(h) > 2 THEN LastN(h, 2) ELSE h

\* update_message_history 110-112.
KeepRecent(h) ==
    IF Len(h) > HistoryLimit THEN LastN(h, HistoryLimit) ELSE h

\* Clamp without its lower end.
Clamp_UpperOnly(n) == Min(100, n)

\* assess_patience_level 229.
Clamp(n) == Max(0, Min(100, n))

\* assess_patience_level 225-240: the patience map once the reply r is in.
\* r None makes response.strip() raise (caught at 239); a text int()
\* rejects raises ValueError (caught at 236).
PatienceAfterAssessment(c, r) ==
    IF r.kind = "text" /\ r.text \in IntTokens
    THEN Put(patience_level, c, Clamp(ParseInt(r.text)))
    ELSE patience_level

\* AssessmentDue comparing with > instead of >=.
AssessmentDue_Late(n, check_interval) == patience_enabled /\ n > check_interval

\* update_message_history 118-120: an assessment is due after the n-th
\* message since the last one.
AssessmentDue(n, check_interval) == patience_enabled /\ n >= check_interval

\* on_message 80-85 with update_message_history 87-122, up to the first
\* await: the assessment's generation call (assess_patience_level 225) when
\* one is due, else the response's generation call, else the handler's end.
update_message_history(t) ==
    LET m == tasks[t].msg
        c == m.chan
        known == c \in DOMAIN message_history
        h0 == IF known THEN message_history[c] ELSE << >>
        n0 == IF known THEN message_count_since_rage_check[c] ELSE 0
        h1 == KeepRecent(Append(h0, [id |-> m.id, author |-> m.author]))
        n1 == n0 + 1
    IN
    /\ tasks[t].pc = "start"
    /\ ~Ignored(m)
    /\ m.cmd = ""
    /\ message_history' = Put(message_history, c, h1)
    /\ patience_level' = IF known THEN patience_level
                         ELSE Put(patience_level, c, InitialPatience)
    /\ \E check_interval \in MinInterval..MaxInterval :
        LET due == AssessmentDue(n1, check_interval) IN
        IF due /\ Len(LastN(h1, AssessWindow)) >= AssessMinimum
        THEN /\ message_count_since_rage_check' =
                    Put(message_count_since_rage_check, c, n1)
             /\ tasks' = [tasks EXCEPT ![t] = [IdleTask EXCEPT !.pc = "assess",
                                                               !.msg = m,
                                                               !.requests = 1]]
        ELSE /\ message_count_since_rage_check' =
                    Put(message_count_since_rage_check, c, IF due THEN 0 ELSE n1)
             /\ tasks' = AfterDecision(t, m)
    /\ UNCHANGED <<validator, now, events, config, last_response_time, sent, unhandled>>

\* llm_client.generate_response 28-91 as seen by its caller: the awaited
\* call of task t completes with a reply.
generate_response(t, replies) ==
    /\ tasks[t].pc \in {"assess", "generate"}
    /\ tasks[t].resp.kind = "pending"
    /\ \E r \in IF tasks[t].pc = "assess" THEN AssessReplies ELSE replies :
        tasks' = [tasks EXCEPT ![t].resp = r]
    /\ UNCHANGED <<validator, now, events, config, last_response_time, message_history,
                   patience_level, message_count_since_rage_check, sent,
                   unhandled>>

\* llm_client.generate_response 78-81: the service answers the request of
\* task t with status 429; the call sleeps, then calls itself, which sends
\* the request again.
generate_response_retry(t) ==
    /\ tasks[t].pc \in {"assess", "generate"}
    /\ tasks[t].resp.kind = "pending"
    /\ tasks[t].requests < MaxRequests
    /\ tasks' = [tasks EXCEPT ![t].requests = @ + 1]
    /\ UNCHANGED <<validator, now, events, config, last_response_time, message_history,
                   patience_level, message_count_since_rage_check, sent,
                   unhandled>>

\* assess_patience_level 227-240, update_message_history 122 and
\* on_message 84-85: the handler resumes with the assessment's reply.
assess_patience_level(t) ==
    LET m == tasks[t].msg
        r == tasks[t].resp
    IN
    /\ tasks[t].pc = "assess"
    /\ r.kind # "pending"
    /\ patience_level' = PatienceAfterAssessment(m.chan, r)
    /\ message_count_since_rage_check' =
            Put(message_count_since_rage_check, m.chan, 0)
    /\ tasks' = AfterDecision(t, m)
    /\ UNCHANGED <<validator, now, events, config, last_response_time, message_history, sent,
                   unhandled>>

\* should_use_reply without the rule for questions.
should_use_reply_NoQuestion(r, m) ==
    LET h == IF m.chan \in DOMAIN message_history
             THEN message_history[m.chan] ELSE << >>
    IN  \/ m.mentions = "bot"
        \/ r.mention
        \/ /\ Len(h) >= 2
           /\ h[Len(h)].author = m.author
           /\ h[Len(h) - 1].author = m.author

\* should_use_reply 400-429.
should_use_reply(r, m) ==
    LET h == IF m.chan \in DOMAIN message_history
             THEN message_history[m.chan] ELSE << >>
    IN  \/ m.mentions = "bot"
        \/ r.mention
        \/ m.question
        \/ /\ Len(h) >= 2
           /\ h[Len(h)].author = m.author
           /\ h[Len(h) - 1].author = m.author

\* generate_and_send_response 267: an empty result.
EmptyResponse(r) == r.kind = "none" \/ r.kind = "blank"

\* LastResponseTimeAfter with the update in a finally clause.
LastResponseTimeAfter_Always(dispatched, c) ==
    Put(last_response_time, c, now)

\* generate_and_send_response 293-294 is reached only after a send went
\* through; every other way out of the try block leaves the map alone.
LastResponseTimeAfter(dispatched, c) ==
    IF dispatched THEN Put(last_response_time, c, now) ELSE last_response_time

\* The number of arguments bot.py 279 and 358 pass to validate_and_adjust.
ValidatorArgs == 2

\* UnhandledAfterFailure without the handler's try block.
UnhandledAfterFailure_NoExcept(id) == unhandled \cup {id}

\* generate_and_send_response 244 and 296-297: `except Exception` ends the
\* handler of message id normally, whatever its try block raised.
UnhandledAfterFailure(id) == unhandled

\* generate_and_send_response 267-297 with send_gif_response 349-385: the
\* handler resumes with the generated text.  Text that needs the
\* validator (all of it, or what is left beside the tag) makes
\* validate_and_adjust raise TypeError, since it is called with
\* ValidatorArgs arguments and takes ValidatorParams; 296 catches it.
generate_and_send_response(t) ==
    LET m == tasks[t].msg
        r == tasks[t].resp
    IN
    /\ tasks[t].pc = "generate"
    /\ r.kind # "pending"
    /\ IF EmptyResponse(r)
       THEN /\ tasks' = [tasks EXCEPT ![t] = IdleTask]
            /\ last_response_time' = LastResponseTimeAfter(FALSE, m.chan)
            /\ UNCHANGED unhandled
       ELSE IF r.gif /\ ~r.rest
       THEN /\ tasks' = [tasks EXCEPT ![t].pc = "send_embed",
                                      ![t].reply = should_use_reply(r, m)]
            /\ UNCHANGED <<last_response_time, unhandled>>
       ELSE /\ ValidatorArgs # ValidatorParams
            /\ tasks' = [tasks EXCEPT ![t] = IdleTask]
            /\ last_response_time' = LastResponseTimeAfter(FALSE, m.chan)
            /\ unhandled' = UnhandledAfterFailure(m.id)
    /\ UNCHANGED <<validator, now, events, config, message_history, patience_level,
                   message_count_since_rage_check, sent>>

\* How the platform can answer a send: it accepts the message, it rejects
\* it (discord.HTTPException), or the send fails in another way.
SendOutcomes == {"ok", "rejected", "error"}

\* The platform answers the send task t is suspended in.
platform_response(t) ==
    /\ tasks[t].pc \in {"send_embed", "send_url"}
    /\ tasks[t].outcome = "pending"
    /\ \E outcome \in SendOutcomes : tasks' = [tasks EXCEPT ![t].outcome = outcome]
    /\ UNCHANGED <<validator, now, events, config, last_response_time, message_history,
                   patience_level, message_count_since_rage_check, sent,
                   unhandled>>

\* A message the platform accepted.
Sent(t, kind) ==
    [id |-> tasks[t].msg.id, chan |-> tasks[t].msg.chan, kind |-> kind,
     reply |-> tasks[t].reply, at |-> now]

\* AfterEmbedSend with no handler for discord.HTTPException.
AfterEmbedSend_NoFallback(outcome) == "idle"

\* send_gif_response 374-388: where the handler goes when the embed send
\* has completed.  discord.HTTPException starts the fallback send.
AfterEmbedSend(outcome) == IF outcome = "rejected" THEN "send_url" ELSE "idle"

\* send_gif_response 374-388 and generate_and_send_response 293-297: the
\* handler resumes from the embed send.  An error that is not a
\* discord.HTTPException leaves through 296.
send_gif_response(t) ==
    LET outcome == tasks[t].outcome IN
    /\ tasks[t].pc = "send_embed"
    /\ outcome # "pending"
    /\ tasks' = IF AfterEmbedSend(outcome) = "send_url"
                THEN [tasks EXCEPT ![t].pc = "send_url", ![t].outcome = "pending"]
                ELSE [tasks EXCEPT ![t] = IdleTask]
    /\ sent' = IF outcome = "ok" THEN sent \cup {Sent(t, "embed")} ELSE sent
    /\ last_response_time' = LastResponseTimeAfter(outcome = "ok", tasks[t].msg.chan)
    /\ unhandled' = IF outcome = "ok" \/ AfterEmbedSend(outcome) = "send_url"
                    THEN unhandled
                    ELSE UnhandledAfterFailure(tasks[t].msg.id)
    /\ UNCHANGED <<validator, now, events, config, message_history, patience_level,
                   message_count_since_rage_check>>

\* send_gif_response 389-398 and generate_and_send_response 293-297: the
\* handler resumes from the fallback send of the URL as plain text, in
\* the mode of the embed send.  No second fallback follows an error.
send_gif_fallback(t) ==
    LET outcome == tasks[t].outcome IN
    /\ tasks[t].pc = "send_url"
    /\ outcome # "pending"
    /\ sent' = IF outcome = "ok" THEN sent \cup {Sent(t, "url")} ELSE sent
    /\ last_response_time' = LastResponseTimeAfter(outcome = "ok", tasks[t].msg.chan)
    /\ unhandled' = IF outcome = "ok" THEN unhandled
                    ELSE UnhandledAfterFailure(tasks[t].msg.id)
    /\ tasks' = [tasks EXCEPT ![t] = IdleTask]
    /\ UNCHANGED <<validator, now, events, config, message_history, patience_level,
                   message_count_since_rage_check>>

Next ==
    \/ Tick
    \/ Dispatch(Inbound, MaxEvents)
    \/ \E t \in Tasks : on_message_ignored(t)
    \/ \E t \in Tasks : handle_admin_command(t)
    \/ \E t \in Tasks : update_message_history(t)
    \/ \E t \in Tasks : generate_response(t, GenReplies)
    \/ \E t \in Tasks : generate_and_send_response(t)
    \/ \E t \in Tasks : platform_response(t)
    \/ \E t \in Tasks : send_gif_response(t)
    \/ \E t \in Tasks : send_gif_fallback(t)

Spec == Init /\ [][Next]_vars

\* The trigger specification: every message the trigger policy tells apart.
NextTrigger ==
    \/ Tick
    \/ Dispatch(TriggerInbound, MaxTriggerEvents)
    \/ \E t \in Tasks : handle_admin_command(t)
    \/ \E t \in Tasks : update_message_history(t)
    \/ \E t \in Tasks : generate_response(t, SentOrFailed)
    \/ \E t \in Tasks : generate_and_send_response(t)
    \/ \E t \in Tasks : platform_response(t)
    \/ \E t \in Tasks : send_gif_response(t)
    \/ \E t \in Tasks : send_gif_fallback(t)

SpecTrigger == Init /\ [][NextTrigger]_vars

\* The patience specification: enough messages for assessments to come due.
NextMood ==
    \/ Dispatch(MoodInbound, MaxMoodEvents)
    \/ \E t \in Tasks : handle_admin_command(t)
    \/ \E t \in Tasks : update_message_history(t)
    \/ \E t \in Tasks : generate_response(t, Failed)
    \/ \E t \in Tasks : assess_patience_level(t)
    \/ \E t \in Tasks : generate_and_send_response(t)

SpecMood == Init /\ [][NextMood]_vars

\* The history specification: enough messages to overflow a history.
NextHistory ==
    \/ Dispatch(HistoryInbound, MaxHistoryEvents)
    \/ \E t \in Tasks : update_message_history(t)
    \/ \E t \in Tasks : generate_response(t, GenReplies)
    \/ \E t \in Tasks : assess_patience_level(t)

SpecHistory == Init /\ [][NextHistory]_vars

\* The events of the serial specification: one author's plain messages in
\* both channels, which the bot leaves unanswered.
SerialInbound ==
    { m \in ChatMsgs : /\ m.author = "u1" /\ m.mentions = "none"
                       /\ ~m.question /\ ~m.gaming /\ m.draw = 85 }

\* The gateway hands over the next message event once the handler of the
\* one before has ended.
SerialDispatch(inbound, limit) ==
    /\ \A t \in Tasks : tasks[t].pc = "idle"
    /\ Dispatch(inbound, limit)

\* The serial specification: messages processed one at a time.
NextSerial ==
    \/ SerialDispatch(SerialInbound, MaxSerialEvents)
    \/ \E t \in Tasks : update_message_history(t)
    \/ \E t \in Tasks : generate_response(t, Failed)
    \/ \E t \in Tasks : assess_patience_level(t)

SpecSerial == Init /\ [][NextSerial]_vars

\* The client specification: the generation call request by request.
NextClient ==
    \/ Dispatch(ClientInbound, MaxClientEvents)
    \/ \E t \in Tasks : update_message_history(t)
    \/ \E t \in Tasks : generate_response_retry(t)
    \/ \E t \in Tasks : generate_response(t, ClientReplies)
    \/ \E t \in Tasks : generate_and_send_response(t)

SpecClient == Init /\ [][NextClient]_vars

(* --------------------------- style validator --------------------------- *)
\* ai/style_validator.py.  A text is a sequence of characters, each a
\* one-character string.
LowerLetters ==
    <<"a", "b", "c", "d", "e", "f", "g", "h", "i", "j", "k", "l", "m", "n",
      "o", "p", "q", "r", "s", "t", "u", "v", "w", "x", "y", "z">>
UpperLetters ==
    <<"A", "B", "C", "D", "E", "F", "G", "H", "I", "J", "K", "L", "M", "N",
      "O", "P", "Q", "R", "S", "T", "U", "V", "W", "X", "Y", "Z">>
LowerSet == {LowerLetters[i] : i \in 1..26}
UpperSet == {UpperLetters[i] : i \in 1..26}
DigitSet == {"0", "1", "2", "3", "4", "5", "6", "7", "8", "9"}

\* str.lower() on one character.
ToLower(c) ==
    IF c \in UpperSet
    THEN LowerLetters[CHOOSE i \in 1..26 : UpperLetters[i] = c]
    ELSE c

\* str.strip()
Strip(s) ==
    LET inked == {i \in 1..Len(s) : s[i] # " "} IN
    IF inked = {} THEN << >>
    ELSE SubSeq(s, CHOOSE i \in inked : \A j \in inked : i <= j,
                   CHOOSE i \in inked : \A j \in inked : i >= j)

\* str.rstrip(chars)
RStrip(s, chars) ==
    LET kept == {i \in 1..Len(s) : s[i] \notin chars} IN
    IF kept = {} THEN << >>
    ELSE SubSeq(s, 1, CHOOSE i \in kept : \A j \in kept : i >= j)

\* The k-th smallest element of the set S of numbers.
Nth(S, k) == CHOOSE p \in S : Cardinality({q \in S : q <= p}) = k

\* str.split(): the maximal runs of characters other than the space, in
\* the order of their first characters.
Split(s) ==
    LET starts == {i \in 1..Len(s) : s[i] # " " /\ (i = 1 \/ s[i - 1] = " ")}
        WordEnd(a) ==
            LET ends == {j \in a..Len(s) : j = Len(s) \/ s[j + 1] = " "}
            IN  CHOOSE j \in ends : \A l \in ends : j <= l
    IN  [k \in 1..Cardinality(starts) |->
            LET a == Nth(starts, k) IN SubSeq(s, a, WordEnd(a))]

RECURSIVE Join(_)
\* ' '.join(words), the two halves of the list joined by a space.
Join(words) ==
    IF words = << >> THEN << >>
    ELSE IF Len(words) = 1 THEN words[1]
    ELSE LET half == Len(words) \div 2
         IN  Join(SubSeq(words, 1, half)) \o <<" ">>
                \o Join(SubSeq(words, half + 1, Len(words)))

\* The length of the match of \d+ at position j of s, 0 for none.
DigitsAt(s, j) ==
    LET stop == {k \in j..(Len(s) + 1) : k = Len(s) + 1 \/ s[k] \notin DigitSet}
    IN  (CHOOSE k \in stop : \A l \in stop : k <= l) - j

\* The length of the match of <@!?\d+> at position i of s, 0 for none.
MentionAt(s, i) ==
    IF i + 1 <= Len(s) /\ s[i] = "<" /\ s[i + 1] = "@"
    THEN LET j == IF i + 2 <= Len(s) /\ s[i + 2] = "!" THEN i + 3 ELSE i + 2
             d == DigitsAt(s, j)
         IN  IF d > 0 /\ j + d <= Len(s) /\ s[j + d] = ">"
             THEN j + d + 1 - i ELSE 0
    ELSE 0

RECURSIVE SubMentions(_, _)
\* re.sub(r'<@!?\d+>', '', s), from position i on.
SubMentions(s, i) ==
    LET found == {j \in i..Len(s) : MentionAt(s, j) > 0} IN
    IF found = {} THEN SubSeq(s, i, Len(s))
    ELSE LET j == CHOOSE j \in found : \A l \in found : j <= l
         IN  SubSeq(s, i, j - 1) \o SubMentions(s, j + MentionAt(s, j))

\* remove_mentions 93-105.
remove_mentions(text) == Join(Split(Strip(SubMentions(text, 1))))

\* str.isupper() and str.islower()
IsUpperWord(w) ==
    /\ \E i \in 1..Len(w) : w[i] \in UpperSet
    /\ \A i \in 1..Len(w) : w[i] \notin LowerSet
IsLowerWord(w) ==
    /\ \E i \in 1..Len(w) : w[i] \in LowerSet
    /\ \A i \in 1..Len(w) : w[i] \notin UpperSet

LowerWord(w) == [i \in 1..Len(w) |-> ToLower(w[i])]

\* enforce_capitalization 107-124.
enforce_capitalization(text) ==
    LET words == Split(text) IN
    Join([i \in 1..Len(words) |->
            IF IsUpperWord(words[i]) /\ Len(words[i]) > 1
            THEN words[i] ELSE LowerWord(words[i])])

\* remove_ending_punctuation 126-135.
remove_ending_punctuation(text) == RStrip(text, {".", ",", "!", "?", ";"})

\* re.split(r'[.!?]', text)[0]
FirstSentence(text) ==
    LET marks == {i \in 1..Len(text) : text[i] \in {".", "!", "?"}} IN
    IF marks = {} THEN text
    ELSE SubSeq(text, 1, (CHOOSE i \in marks : \A j \in marks : i <= j) - 1)

\* adjust_message_length 137-154.
adjust_message_length(text) ==
    LET words == Split(text) IN
    IF Len(words) > ShortenAbove
    THEN IF Len(words) > SentenceAbove
         THEN Strip(FirstSentence(text))
         ELSE Join(SubSeq(words, 1, KeptWords))
    ELSE text

\* apply_authentic_slang 159-170: the replacements in dict order.
Replacements ==
    << [pat |-> <<"y", "o", "u">>,
        rep |-> <<"u">>],
       [pat |-> <<"y", "o", "u", "r">>,
        rep |-> <<"u", "r">>],
       [pat |-> <<"b", "e", "c", "a", "u", "s", "e">>,
        rep |-> <<"c", "u", "z">>],
       [pat |-> <<"f", "o", "r", " ", "r", "e", "a", "l">>,
        rep |-> <<"f", "r">>],
       [pat |-> <<"t", "h", "o", "u", "g", "h">>,
        rep |-> <<"t", "h", "o">>],
       [pat |-> <<"s", "o", "m", "e", "t", "h", "i", "n", "g">>,
        rep |-> <<"s", "m", "t", "h">>],
       [pat |-> <<"w", "a", "n", "t", " ", "t", "o">>,
        rep |-> <<"w", "a", "n", "n", "a">>],
       [pat |-> <<"g", "o", "i", "n", "g", " ", "t", "o">>,
        rep |-> <<"g", "o", "n", "n", "a">>],
       [pat |-> <<"d", "o", "n", "'", "t", " ", "k", "n", "o", "w">>,
        rep |-> <<"i", "d", "k">>],
       [pat |-> <<"o", "k">>,
        rep |-> <<"o", "k">>] >>

\* \w
IsWordChar(c) == c \in LowerSet \cup UpperSet \cup DigitSet \cup {"_"}

\* \bpat\b matches at position i of s, ignoring case.
MatchesAt(s, i, pat) ==
    /\ i + Len(pat) - 1 <= Len(s)
    /\ \A k \in 1..Len(pat) : ToLower(s[i + k - 1]) = pat[k]
    /\ i = 1 \/ ~IsWordChar(s[i - 1])
    /\ i + Len(pat) > Len(s) \/ ~IsWordChar(s[i + Len(pat)])

RECURSIVE ReplaceFrom(_, _, _, _)
\* re.sub(r'\bpat\b', rep, s, flags=re.IGNORECASE), from position i on.
ReplaceFrom(s, i, pat, rep) ==
    LET found == {j \in i..Len(s) : MatchesAt(s, j, pat)} IN
    IF found = {} THEN SubSeq(s, i, Len(s))
    ELSE LET j == CHOOSE j \in found : \A l \in found : j <= l
         IN  SubSeq(s, i, j - 1) \o rep \o ReplaceFrom(s, j + Len(pat), pat, rep)

RECURSIVE ApplyReplacements(_, _)
\* apply_authentic_slang 172-176, from the k-th replacement on; an empty
\* text has nothing to replace.
ApplyReplacements(text, k) ==
    IF text = << >> \/ k > Len(Replacements) THEN text
    ELSE ApplyReplacements(
            ReplaceFrom(text, 1, Replacements[k].pat, Replacements[k].rep), k + 1)

\* apply_authentic_slang 156-176.
apply_authentic_slang(text) == ApplyReplacements(text, 1)

\* is_valid_response 178-207.
is_valid_response(response) ==
    LET words == Split(response)
        proper_case_count ==
            Cardinality({i \in 1..Len(words) :
                            ~IsUpperWord(words[i]) /\ IsLowerWord(words[i])})
    IN  /\ Len(words) > 0
        /\ Len(words) <= MaxValidWords
        /\ ~(100 * proper_case_count < LowercasePercent * Len(words))

\* get_fallback_response 209-223.
FallbackResponses ==
    { <<"n", "a", "h">>, <<"f", "r">>, <<"i", "d", "k">>,
      <<"c", "r", "a", "z", "y">>, <<"b", "r", "o">>, <<"y", "e", "a", "h">>,
      <<"w", "t", "f">>, <<"l", "m", "a", "o">> }

\* validate_and_adjust 63-91, applied to the text the validator holds: the
\* five adjustments one after the other, each on the result of the one
\* before, then the acceptance test.
validate_and_adjust ==
    LET response == validator.text IN
    /\ validator.calls < MaxCalls
    /\ IF Strip(response) = << >>
       THEN validator' = [validator EXCEPT !.text = << >>, !.calls = @ + 1,
                                           !.fallback = FALSE]
       ELSE \E stripped \in {Strip(response)} :
            \E unmentioned \in {remove_mentions(stripped)} :
            \E cased \in {enforce_capitalization(unmentioned)} :
            \E unpunctuated \in {remove_ending_punctuation(cased)} :
            \E shortened \in {adjust_message_length(unpunctuated)} :
            \E adjusted \in {apply_authentic_slang(shortened)} :
                IF is_valid_response(adjusted)
                THEN validator' = [validator EXCEPT !.text = adjusted,
                                                    !.calls = @ + 1,
                                                    !.fallback = FALSE]
                ELSE \E f \in FallbackResponses :
                        validator' = [validator EXCEPT !.text = f,
                                                       !.calls = @ + 1,
                                                       !.fallback = TRUE]
    /\ UNCHANGED <<now, events, tasks, config, last_response_time,
                   message_history, patience_level,
                   message_count_since_rage_check, sent, unhandled>>

\* The words the validator's inputs are made of.
Vocabulary ==
    { <<"b", "r", "o">>, <<"D", "A", "M", "N">>, <<"Y", "e", "a", "h", ",">>,
      <<"y", "o", "u">>, <<"o", "k", ".">>, <<"<", "@", "1", "2", ">">>,
      <<"w", "h", "a", "t", "?">>, <<"I">> }

\* The texts of one to MaxWords words of the vocabulary.
Phrases ==
    UNION { { Join(ws) : ws \in [1..n -> Vocabulary] } : n \in 1..MaxWords }

\* n times the word "bro", each followed by a space.
Padding(n) == [i \in 1..(4 * n) |-> <<"b", "r", "o", " ">>[((i - 1) % 4) + 1]]

\* The texts handed to the validator: the phrases alone, after 11 or 17
\* more words, and before 4 more words; and some texts of the program's
\* tests and documentation.
ValidatorInputs ==
    { Padding(before) \o ph \o (IF after THEN <<" ">> \o Strip(Padding(4)) ELSE << >>) :
        before \in {0, 11, 17}, ph \in Phrases, after \in BOOLEAN }
    \cup
    { <<"t", "h", "a", "t", " ", "w", "a", "s", " ", "D", "A", "M", "N", " ", "g", "o", "o", "d">>,
      <<"<", "@", "1", "2", "3", ">", " ", "b", "r", "o", " ", "s", "t", "o", "p">>,
      <<" ", " ">>,
      <<"n", "a", "h", " ", "b", "r", "o", " ", "t", "h", "a", "t", "'", "s", " ", "c", "r", "a", "z", "y", " ", "f", "r">> }

InitValidator ==
    /\ now = 0
    /\ events = 0
    /\ tasks = [t \in Tasks |-> IdleTask]
    /\ is_active = TRUE
    /\ base_response_rate = DefaultRate
    /\ allow_long_messages = FALSE
    /\ allow_gifs = FALSE
    /\ patience_enabled = TRUE
    /\ last_response_time = EmptyDict
    /\ message_history = EmptyDict
    /\ patience_level = EmptyDict
    /\ message_count_since_rage_check = EmptyDict
    /\ sent = {}
    /\ unhandled = {}
    /\ \E x \in ValidatorInputs :
        validator = [input |-> x, text |-> x, calls |-> 0, fallback |-> FALSE]

\* The validator specification: validate_and_adjust applied to a text,
\* then to its own result.
NextValidator == validate_and_adjust

SpecValidator == InitValidator /\ [][NextValidator]_vars

(* ------------------------------ properties ----------------------------- *)
IsChat(m) == ~m.bot /\ m.guild /\ m.cmd = ""

\* The step in which should_respond answers for the message of task t:
\* the handler's first segment when no assessment is awaited, else the
\* segment that resumes from the assessment.
Decides(t) ==
    \/ /\ tasks[t].pc = "start"
       /\ IsChat(tasks[t].msg)
       /\ tasks'[t].pc \in {"idle", "generate"}
    \/ /\ tasks[t].pc = "assess"
       /\ tasks'[t].pc \in {"idle", "generate"}

\* The bot answered in channel c less than rate_limit_seconds ago.
InsideWindow(c) ==
    /\ c \in DOMAIN last_response_time
    /\ now - last_response_time[c] < 30

Bonus(b, amount) == IF b THEN amount ELSE 0

\* C1: while a response was recorded in the message's channel less than
\* rate_limit_seconds ago, should_respond answers false, whatever the
\* content, the mentions (the bot's included), the rate and the draw.
C1_RateLimitIsHard ==
    [][ \A t \in Tasks :
          (Decides(t) /\ InsideWindow(tasks[t].msg.chan))
              => tasks'[t].pc # "generate" ]_vars

\* A message that mentions the bot, with draw 0, is about to be decided in
\* a channel the bot answered less than 30 seconds ago.
C1_Witness ==
    \E t \in Tasks :
        /\ tasks[t].pc = "start"
        /\ IsChat(tasks[t].msg)
        /\ tasks[t].msg.mentions = "bot"
        /\ tasks[t].msg.draw = 0
        /\ is_active
        /\ InsideWindow(tasks[t].msg.chan)
        /\ now > last_response_time[tasks[t].msg.chan]

\* C2 (as claimed): with the bot active and the channel not rate-limited,
\* a message that mentions the bot is answered for every draw.
C2_MentionAlwaysAnswered ==
    [][ \A t \in Tasks :
          ( /\ Decides(t)
            /\ is_active
            /\ ~InsideWindow(tasks[t].msg.chan)
            /\ tasks[t].msg.mentions = "bot" )
              => tasks'[t].pc = "generate" ]_vars

\* C3 (as claimed): when the handler of a trigger message ends after the
\* generation call returned text with no media tag, exactly one plain text
\* message has been dispatched for that trigger message.
C3_PlainTextDispatched ==
    [][ \A t \in Tasks :
          ( /\ tasks[t].pc = "generate"
            /\ tasks[t].resp.kind = "text"
            /\ ~tasks[t].resp.gif
            /\ tasks'[t].pc = "idle" )
              => Cardinality({ x \in sent' : /\ x.id = tasks[t].msg.id
                                              /\ x.kind = "text" }) = 1 ]_vars

\* C4: for a message that does not mention the bot, bot active and channel
\* not rate-limited, should_respond answers true exactly when the draw is
\* below min(rate + 0.3 [any mention] + 0.3 ['?'] + 0.3 [gaming keyword]
\* + recency bonus, 0.85).
C4_ProbabilityFormula ==
    [][ \A t \in Tasks :
          LET m == tasks[t].msg
              recency == IF m.chan \in DOMAIN last_response_time
                         THEN Bonus(now - last_response_time[m.chan] > 7200, 20)
                         ELSE 20
              p == base_response_rate + Bonus(m.mentions = "other", 30)
                     + Bonus(m.question, 30) + Bonus(m.gaming, 30) + recency
          IN  ( /\ Decides(t)
                /\ is_active
                /\ ~InsideWindow(m.chan)
                /\ m.mentions # "bot" )
                  => (tasks'[t].pc = "generate" <=> m.draw < Min(p, 85)) ]_vars

\* A message with all three content bonuses and a draw of 0.85 is about to
\* be decided, the bot active and the channel not rate-limited.
C4_Witness ==
    \E t \in Tasks :
        /\ tasks[t].pc = "start"
        /\ IsChat(tasks[t].msg)
        /\ tasks[t].msg.mentions = "other"
        /\ tasks[t].msg.question
        /\ tasks[t].msg.gaming
        /\ tasks[t].msg.draw = 85
        /\ is_active
        /\ tasks[t].msg.chan \in DOMAIN last_response_time
        /\ ~InsideWindow(tasks[t].msg.chan)

\* C5 (as claimed): the 0.2 recency bonus is part of the probability exactly
\* when the message is the first ever observed in its channel or more than
\* two hours have passed since the last bot response there.
C5_BonusFirstOrStale ==
    [][ \A t \in Tasks :
          LET m == tasks[t].msg
              first == m.chan \notin DOMAIN message_history
              stale == /\ m.chan \in DOMAIN last_response_time
                       /\ now - last_response_time[m.chan] > 7200
              p == base_response_rate + Bonus(m.mentions = "other", 30)
                     + Bonus(m.question, 30) + Bonus(m.gaming, 30)
                     + Bonus(first \/ stale, 20)
          IN  ( /\ Decides(t)
                /\ tasks[t].pc = "start"
                /\ is_active
                /\ ~InsideWindow(m.chan)
                /\ m.mentions # "bot" )
                  => (tasks'[t].pc = "generate" <=> m.draw < Min(p, 85)) ]_vars

\* The messages tracked so far in the history specification, whose events
\* are all tracked messages of one channel, numbered in arrival order: all
\* but the one a handler has not started on yet.
TrackedSoFar == events - Cardinality({t \in Tasks : tasks[t].pc = "start"})

\* C6: every channel's history holds at most 25 entries, and they are the
\* most recently tracked messages of the channel in arrival order.
C6_HistoryHoldsLatest ==
    \A c \in DOMAIN message_history :
        LET h == message_history[c]
            n == Len(h)
        IN  /\ n <= 25
            /\ n = Min(TrackedSoFar, 25)
            /\ \A i \in 1..n : h[i].id = TrackedSoFar - n + i

\* 27 messages were tracked: the two oldest are gone.
C6_Witness ==
    \E c \in DOMAIN message_history :
        /\ Len(message_history[c]) = 25
        /\ message_history[c][1].id = 3
        /\ message_history[c][25].id = 27

\* Task t resumes from an assessment whose reply parses as an integer.
AssessmentSucceeds(t) ==
    /\ tasks[t].pc = "assess"
    /\ tasks[t].resp.kind = "text"
    /\ tasks[t].resp.text \in IntTokens
    /\ tasks'[t].pc # "assess"

\* Task t carries out a `patience N` command of the configured admin
\* identity or of a guild administrator.
AuthorizedPatienceCommand(t) ==
    /\ tasks[t].pc = "start"
    /\ tasks[t].msg.cmd = "patience"
    /\ tasks[t].msg.author = TargetUser \/ tasks[t].msg.administrator
    /\ tasks'[t].pc = "idle"

\* Task t tracks the first message observed in channel c.
CreatesState(t, c) ==
    /\ tasks[t].pc = "start"
    /\ tasks[t].msg.chan = c
    /\ c \notin DOMAIN message_history
    /\ c \in DOMAIN message_history'

C8_AssessmentClamps ==
    [][ \A t \in Tasks :
          LET c == tasks[t].msg.chan
              r == tasks[t].resp
              n == ParseInt(r.text)
          IN  (tasks[t].pc = "assess" /\ r.kind # "pending" /\ tasks'[t].pc # "assess")
                => /\ IF r.kind = "text" /\ r.text \in IntTokens
                      THEN patience_level'[c] =
                              (IF n > 100 THEN 100 ELSE IF n < 0 THEN 0 ELSE n)
                      ELSE patience_level'[c] = patience_level[c]
                   /\ message_count_since_rage_check'[c] = 0
                   /\ tasks'[t].pc \in {"idle", "generate"} ]_vars

\* A reply of 150 has been stored as 100 and the counter reset.
C8_Witness ==
    \E c \in DOMAIN patience_level :
        /\ c \in DOMAIN message_history
        /\ patience_level[c] = 100
        /\ message_count_since_rage_check[c] = 0

\* C9 (as claimed): the handler of a message never waits for the
\* assessment that message started: while the assessment's generation call
\* is pending, the handler is past it.
C9_AssessmentOffResponsePath ==
    \A t \in Tasks : ~(tasks[t].pc = "assess" /\ tasks[t].resp.kind = "pending")

\* C10: a response attempt whose generation call returned no text, or only
\* whitespace, ends without a send and leaves history, patience, counters,
\* configuration and last_response_time as they were.
C10_EmptyResultAbortsSilently ==
    [][ \A t \in Tasks :
          ( /\ tasks[t].pc = "generate"
            /\ tasks[t].resp.kind \in {"none", "blank"}
            /\ tasks'[t] # tasks[t] )
              => /\ tasks'[t].pc = "idle"
                 /\ sent' = sent
                 /\ message_history' = message_history
                 /\ patience_level' = patience_level
                 /\ message_count_since_rage_check' = message_count_since_rage_check
                 /\ config' = config
                 /\ last_response_time' = last_response_time ]_vars

\* A generation call has come back with only whitespace, in a channel
\* where the bot answered before.
C10_Witness ==
    \E t \in Tasks :
        /\ tasks[t].pc = "generate"
        /\ tasks[t].resp.kind = "blank"
        /\ tasks[t].msg.chan \in DOMAIN last_response_time
        /\ sent # {}

\* The response messages (not command acknowledgements) this step
\* dispatched in channel c.
DispatchedIn(c) ==
    { x \in sent' \ sent : x.chan = c /\ x.kind \in {"text", "embed", "url"} }

\* C11: a step records now as last_response_time[c] exactly when it is the
\* step in which a response attempt's send in c (plain, media, or media
\* fallback) went through: an attempt that ends before any send, or whose
\* sends fail, leaves the map as it was.
C11_ResponseTimeIffDispatched ==
    [][ \A c \in Channels :
          /\ DispatchedIn(c) # {}
                => /\ c \in DOMAIN last_response_time'
                   /\ last_response_time'[c] = now
          /\ ( /\ c \in DOMAIN last_response_time'
               /\ c \in DOMAIN last_response_time
                     => last_response_time'[c] # last_response_time[c] )
                => DispatchedIn(c) # {} ]_vars

\* A fallback send went through in one channel, whose response time is the
\* time of that send, while an attempt in the other channel ended with no
\* send and no recorded time.
C11_Witness ==
    \E x \in sent : \E d \in DOMAIN message_history :
        /\ x.kind = "url"
        /\ x.chan \in DOMAIN last_response_time
        /\ last_response_time[x.chan] = x.at
        /\ d # x.chan
        /\ d \notin DOMAIN last_response_time
        /\ \A t \in Tasks : tasks[t].pc = "idle"

\* C12 (as claimed): one generation call sends at most two requests: the
\* first, and one retry after a rate-limit reply; a second rate-limit
\* reply ends the call.
C12_AtMostTwoRequests ==
    \A t \in Tasks : tasks[t].requests <= 2

\* The step in which the handler of task t, resuming with a reply that is
\* a media tag alone, picks the mode of its send.
PicksMode(t) ==
    /\ tasks[t].pc = "generate"
    /\ tasks'[t].pc = "send_embed"

\* C13 (as claimed): when the trigger message does not mention the bot and
\* holds no '?', and the generated text holds no mention token, the
\* response is a reply exactly when the two history entries immediately
\* before the trigger message's own entry both have the trigger's author.
C13_ReplyIffTwoPreceding ==
    [][ \A t \in Tasks :
          LET m == tasks[t].msg
              h == message_history[m.chan]
              continuing ==
                  \E i \in 3..Len(h) : /\ h[i].id = m.id
                                       /\ h[i - 1].author = m.author
                                       /\ h[i - 2].author = m.author
          IN  ( /\ PicksMode(t)
                /\ m.mentions # "bot"
                /\ ~m.question
                /\ ~tasks[t].resp.mention )
                  => (tasks'[t].reply <=> continuing) ]_vars

\* C14: whatever the channel's history, the response is a reply whenever
\* the trigger message holds a '?', or mentions the bot, or the generated
\* text holds a mention token.
C14_ReplyForced ==
    [][ \A t \in Tasks :
          ( /\ PicksMode(t)
            /\ \/ tasks[t].msg.question
               \/ tasks[t].msg.mentions = "bot"
               \/ tasks[t].resp.mention )
              => tasks'[t].reply ]_vars

\* A reply has been chosen for generated text with a mention token, the
\* trigger being the only message of its channel, with no '?' and no
\* mention of the bot.
C14_Witness ==
    \E t \in Tasks :
        /\ tasks[t].pc = "send_embed"
        /\ tasks[t].reply
        /\ tasks[t].resp.mention
        /\ ~tasks[t].msg.question
        /\ tasks[t].msg.mentions = "none"
        /\ Len(message_history[tasks[t].msg.chan]) = 1

\* C15 (as claimed): when the generated text holds a media tag beside
\* other text, the handler strips the tag, normalizes the rest and goes on
\* to send one message that combines the media and the text.
C15_TagWithTextDispatched ==
    [][ \A t \in Tasks :
          ( /\ tasks[t].pc = "generate"
            /\ tasks[t].resp.kind = "text"
            /\ tasks[t].resp.gif
            /\ tasks[t].resp.rest
            /\ tasks'[t] # tasks[t] )
              => tasks'[t].pc = "send_embed" ]_vars

\* C16: when the platform rejects the combined media send, the handler
\* attempts one fallback send for the same trigger message in the same
\* mode (reply or broadcast), whose plain text holds the media URL; the
\* handler ends when that send completes, delivered or not; and no other
\* path sends such a message.
C16_OneFallbackInSameMode ==
    [][ \A t \in Tasks :
          /\ ( /\ tasks[t].pc = "send_embed"
               /\ tasks[t].outcome = "rejected"
               /\ tasks'[t] # tasks[t] )
                => /\ tasks'[t].pc = "send_url"
                   /\ tasks'[t].outcome = "pending"
                   /\ tasks'[t].reply = tasks[t].reply
                   /\ tasks'[t].msg = tasks[t].msg
                   /\ sent' = sent
          /\ ( /\ tasks[t].pc = "send_url"
               /\ tasks[t].outcome # "pending"
               /\ tasks'[t] # tasks[t] )
                => /\ tasks'[t].pc = "idle"
                   /\ sent' \ sent =
                        IF tasks[t].outcome = "ok"
                        THEN {[id |-> tasks[t].msg.id, chan |-> tasks[t].msg.chan,
                               kind |-> "url", reply |-> tasks[t].reply, at |-> now]}
                        ELSE {}
          /\ \A x \in sent' \ sent :
                (x.kind = "url" /\ x.id = tasks[t].msg.id)
                    => tasks[t].pc = "send_url" ]_vars

\* A fallback send was delivered as a reply, the embed send it follows
\* having left no message.
C16_Witness ==
    \E x \in sent :
        /\ x.kind = "url"
        /\ x.reply
        /\ \A y \in sent : y.id = x.id => y = x

\* The response of task t fails in this step: the generation call gave
\* nothing, the normalizer raised, or a send that has no fallback failed.
ResponseFails(t) ==
    /\ \/ /\ tasks[t].pc = "generate"
          /\ \/ tasks[t].resp.kind = "none"
             \/ tasks[t].resp.kind = "text" /\ tasks[t].resp.rest
       \/ /\ tasks[t].pc = "send_embed"
          /\ tasks[t].outcome = "error"
       \/ /\ tasks[t].pc = "send_url"
          /\ tasks[t].outcome \in {"rejected", "error"}
    /\ tasks'[t] # tasks[t]

\* C17: a failure while responding to one message (generation failure,
\* normalizer error, send failure) does not leave the response handler:
\* the handler ends normally, history, patience and configuration are as
\* they were, the other handlers are untouched and the slot is free for
\* the messages that follow.
C17_FailureStaysInHandler ==
    [][ \A t \in Tasks :
          ResponseFails(t)
              => /\ unhandled' = unhandled
                 /\ tasks'[t] = IdleTask
                 /\ \A u \in Tasks \ {t} : tasks'[u] = tasks[u]
                 /\ message_history' = message_history
                 /\ patience_level' = patience_level
                 /\ config' = config ]_vars

\* A fallback send has just been rejected while the handler of a later
\* message waits for its generation call, no error having left a handler
\* so far.
C17_Witness ==
    \E t, u \in Tasks :
        /\ tasks[t].pc = "send_url"
        /\ tasks[t].outcome = "rejected"
        /\ tasks[u].pc = "generate"
        /\ tasks[u].msg.id > tasks[t].msg.id
        /\ unhandled = {}

\* Task t carries out command cmd of an authorized sender.
AuthorizedCommand(t, cmd) ==
    /\ tasks[t].pc = "start"
    /\ tasks[t].msg.cmd = cmd
    /\ tasks[t].msg.author = TargetUser \/ tasks[t].msg.administrator
    /\ tasks'[t].pc = "idle"

\* C18: an authorized `pause` makes the bot inactive and an authorized
\* `resume` makes it active again, each leaving the rest of the trigger
\* policy's state alone, and nothing else changes that; while the bot is
\* inactive should_respond answers false for every message, whatever its
\* content and draw, and the message is still added to its channel's
\* history.
C18_PausedNeverResponds ==
    [][ /\ \A t \in Tasks :
            /\ AuthorizedCommand(t, "pause") => ~is_active'
            /\ AuthorizedCommand(t, "resume") => is_active'
            /\ (AuthorizedCommand(t, "pause") \/ AuthorizedCommand(t, "resume"))
                  => /\ base_response_rate' = base_response_rate
                     /\ last_response_time' = last_response_time
            /\ (Decides(t) /\ ~is_active) => tasks'[t].pc = "idle"
            /\ ( /\ tasks[t].pc = "start"
                 /\ IsChat(tasks[t].msg)
                 /\ tasks'[t] # tasks[t]
                 /\ ~is_active )
                  => LET h == message_history'[tasks[t].msg.chan]
                     IN  /\ h # << >>
                         /\ h[Len(h)].id = tasks[t].msg.id
        /\ is_active' # is_active
              => \E t \in Tasks : \/ AuthorizedCommand(t, "pause")
                                  \/ AuthorizedCommand(t, "resume") ]_vars

\* The bot is paused and a message that mentions it, with draw 0, is
\* about to be decided in a channel with no recorded response.
C18_Witness ==
    \E t \in Tasks :
        /\ ~is_active
        /\ tasks[t].pc = "start"
        /\ IsChat(tasks[t].msg)
        /\ tasks[t].msg.mentions = "bot"
        /\ tasks[t].msg.draw = 0
        /\ tasks[t].msg.chan \notin DOMAIN last_response_time

\* C19: a guild message that starts with '!py' from a sender who is
\* neither the configured admin identity nor a guild administrator ends
\* its handler at once: configuration, patience, history, counters and
\* response times are as they were, nothing is sent, no error is raised,
\* and the message never reaches the trigger policy.
C19_UnauthorizedCommandIsInert ==
    [][ \A t \in Tasks :
          LET m == tasks[t].msg IN
          ( /\ tasks[t].pc = "start"
            /\ ~m.bot /\ m.guild
            /\ m.cmd # ""
            /\ m.author # "u1"
            /\ ~m.administrator
            /\ tasks'[t] # tasks[t] )
              => /\ tasks'[t] = IdleTask
                 /\ config' = config
                 /\ patience_level' = patience_level
                 /\ message_history' = message_history
                 /\ message_count_since_rage_check' = message_count_since_rage_check
                 /\ last_response_time' = last_response_time
                 /\ sent' = sent
                 /\ unhandled' = unhandled ]_vars

\* A `patience 20` command of a user without rights is about to be
\* handled in a channel whose patience is 70.
C19_Witness ==
    \E t \in Tasks :
        /\ tasks[t].pc = "start"
        /\ tasks[t].msg.cmd = "patience"
        /\ tasks[t].msg.arg = "20"
        /\ tasks[t].msg.author = "u2"
        /\ ~tasks[t].msg.administrator
        /\ tasks[t].msg.chan \in DOMAIN patience_level
        /\ patience_level[tasks[t].msg.chan] = 70

\* C20: a message written by a bot account, or received outside a guild,
\* ends its handler at once: no state changes, no generation call is
\* started and nothing is sent.
C20_FilteredMessageIsInert ==
    [][ \A t \in Tasks :
          LET m == tasks[t].msg IN
          ( /\ tasks[t].pc = "start"
            /\ m.bot \/ ~m.guild
            /\ tasks'[t] # tasks[t] )
              => /\ tasks'[t] = IdleTask
                 /\ \A u \in Tasks \ {t} : tasks'[u] = tasks[u]
                 /\ <<now, config, last_response_time, message_history,
                      patience_level, message_count_since_rage_check, sent,
                      unhandled>>' =
                    <<now, config, last_response_time, message_history,
                      patience_level, message_count_since_rage_check, sent,
                      unhandled>> ]_vars

\* A direct message is about to be handled, the bot active, in a channel
\* that has a history and no recorded response.
C20_Witness ==
    \E t \in Tasks :
        /\ tasks[t].pc = "start"
        /\ ~tasks[t].msg.guild
        /\ ~tasks[t].msg.bot
        /\ is_active
        /\ tasks[t].msg.chan \in DOMAIN message_history
        /\ tasks[t].msg.chan \notin DOMAIN last_response_time

\* The text passes the acceptance check as documented: 1 to 25 words, at
\* least 80% of them lowercase or all uppercase.
Conformant(x) ==
    LET words == Split(x)
        compliant == {i \in 1..Len(words) :
                        IsLowerWord(words[i]) \/ IsUpperWord(words[i])}
    IN  /\ Len(words) \in 1..25
        /\ 5 * Cardinality(compliant) >= 4 * Len(words)

\* C21 (as claimed): for a text x that passes the acceptance check,
\* normalizing the normalized text gives the normalized text again, when
\* neither call falls back to a canned token.
C21_NormalizeIdempotent ==
    [][ ( /\ validator.calls = 1
          /\ validator'.calls = 2
          /\ Conformant(validator.input)
          /\ ~validator.fallback
          /\ ~validator'.fallback )
            => validator'.text = validator.text ]_vars

\* C22 (as claimed): when the normalized form of a text is accepted, the
\* output holds no mention token <@digits> or <@!digits> and no two spaces
\* in a row, does not end in . , ! ? or ; (unless it ends in '...'), and
\* has at most 25 words.
C22_OutputInEnvelope ==
    LET out == validator.text
        n == Len(out)
    IN  ( /\ validator.calls = 1
          /\ ~validator.fallback
          /\ out # << >> )
            => /\ \A i \in 1..n : MentionAt(out, i) = 0
               /\ \A i \in 1..(n - 1) : ~(out[i] = " " /\ out[i + 1] = " ")
               /\ \/ out[n] \notin {".", ",", "!", "?", ";"}
                  \/ n >= 3 /\ SubSeq(out, n - 2, n) = <<".", ".", ".">>
               /\ Len(Split(out)) <= 25

\* The text is at most 15 words, single-spaced, each of them made of
\* lowercase letters or of two or more uppercase letters, one at least of
\* the latter.
EmphasisOnly(x) ==
    LET words == Split(x) IN
    /\ x = Join(words)
    /\ Len(words) \in 1..15
    /\ \A i \in 1..Len(words) :
          \/ \A k \in 1..Len(words[i]) : words[i][k] \in LowerSet
          \/ /\ Len(words[i]) >= 2
             /\ \A k \in 1..Len(words[i]) : words[i][k] \in UpperSet
    /\ \E i \in 1..Len(words) : IsUpperWord(words[i])

\* C23 (as claimed): a short text whose words are lowercase but for
\* all-uppercase words of two or more letters is not replaced by a canned
\* token, and its uppercase words are still in the output.
C23_EmphasisSurvives ==
    ( /\ validator.calls = 1
      /\ EmphasisOnly(validator.input) )
        => /\ ~validator.fallback
           /\ LET words == Split(validator.input)
                  out == Split(validator.text)
              IN  \A i \in 1..Len(words) :
                      IsUpperWord(words[i])
                          => \E j \in 1..Len(out) : out[j] = words[i]

\* The value of messages_since_patience_check of channel c once one more
\* message has been tracked there.
CountAfterTracking(c) ==
    IF c \in DOMAIN message_count_since_rage_check
    THEN message_count_since_rage_check[c] + 1 ELSE 1

\* C24: with automatic patience enabled and messages processed one at a
\* time, tracking the n-th message since the previous assessment (or since
\* the channel's state was created) starts no assessment when n < 4 and
\* starts one when n = 8, n never exceeds 8, and the counter is 0 once the
\* assessment has been made.
C24_AssessmentEvery4To8 ==
    [][ \A t \in Tasks :
          LET c == tasks[t].msg.chan
              n == CountAfterTracking(c)
          IN  /\ ( /\ tasks[t].pc = "start"
                   /\ IsChat(tasks[t].msg)
                   /\ patience_enabled
                   /\ tasks'[t] # tasks[t] )
                    => /\ n <= 8
                       /\ n < 4 => tasks'[t].pc # "assess"
                       /\ n = 8 => tasks'[t].pc = "assess"
                       /\ tasks'[t].pc # "assess"
                             => message_count_since_rage_check'[c] = n
              /\ (tasks[t].pc = "assess" /\ tasks'[t].pc # "assess")
                    => message_count_since_rage_check'[c] = 0 ]_vars

\* The eighth message since the last assessment of its channel is about
\* to be tracked, the channel having been assessed before.
C24_Witness ==
    \E t \in Tasks :
        LET c == tasks[t].msg.chan IN
        /\ tasks[t].pc = "start"
        /\ c \in DOMAIN message_count_since_rage_check
        /\ message_count_since_rage_check[c] = 7
        /\ Len(message_history[c]) > 7
        /\ patience_enabled

\* C30: with messages processed one at a time, every channel's history
\* holds at least min(messages_since_patience_check, 25) entries; when
\* tracking starts an assessment the history holds at least 3 entries, and
\* tracking never resets the counter without an assessment (the 'fewer
\* than 3 entries' branch).
C30_HistoryCoversCounter ==
    [][ /\ \A c \in DOMAIN message_count_since_rage_check' :
            /\ c \in DOMAIN message_history'
            /\ Len(message_history'[c]) >=
                  (IF message_count_since_rage_check'[c] < 25
                   THEN message_count_since_rage_check'[c] ELSE 25)
        /\ \A t \in Tasks :
            LET c == tasks[t].msg.chan IN
            ( /\ tasks[t].pc = "start"
              /\ IsChat(tasks[t].msg)
              /\ tasks'[t] # tasks[t] )
                => IF tasks'[t].pc = "assess"
                   THEN Len(message_history'[c]) >= 3
                   ELSE message_count_since_rage_check'[c] >= 1 ]_vars

\* An assessment was started by the fourth message of a channel, whose
\* history holds four entries.
C30_Witness ==
    \E t \in Tasks :
        LET c == tasks[t].msg.chan IN
        /\ tasks[t].pc = "assess"
        /\ message_count_since_rage_check[c] = 4
        /\ Len(message_history[c]) = 4

\* C25 (as claimed): when the handler of message m assembles the prompt,
\* the most recent entry of the channel's history is m's own entry.
C25_PromptReadsOwnEntryLast ==
    [][ \A t \in Tasks :
          ( /\ tasks[t].pc \in {"start", "assess"}
            /\ tasks'[t].pc = "generate" )
              => LET h == message_history'[tasks[t].msg.chan]
                 IN  /\ h # << >>
                     /\ h[Len(h)].id = tasks[t].msg.id ]_vars

\* C26: base_response_rate is always between 0 and 1 (0 and 100 percent);
\* an authorized `rate N` command sets it to N percent when N is an integer
\* from 0 to 100, and otherwise leaves the whole configuration as it was
\* and sends at most an error reply; nothing else changes the rate.
C26_RateStaysInRange ==
    [][ /\ base_response_rate' \in 0..100
        /\ \A t \in Tasks :
            LET m == tasks[t].msg
                inRange == /\ m.arg \in IntTokens
                           /\ ParseInt(m.arg) >= 0
                           /\ ParseInt(m.arg) <= 100
            IN  AuthorizedCommand(t, "rate")
                  => IF inRange
                     THEN base_response_rate' = ParseInt(m.arg)
                     ELSE /\ config' = config
                          /\ \A x \in sent' \ sent :
                                x.kind = "error" /\ x.id = m.id
        /\ base_response_rate' # base_response_rate
              => \E t \in Tasks : AuthorizedCommand(t, "rate") ]_vars

\* A `rate 101` command of the admin is about to be handled, the rate
\* having been set to 55 percent before.
C26_Witness ==
    \E t \in Tasks :
        /\ tasks[t].pc = "start"
        /\ tasks[t].msg.cmd = "rate"
        /\ tasks[t].msg.arg = "101"
        /\ tasks[t].msg.author = "u1"
        /\ base_response_rate = 55

\* C27 (as claimed): even when the handlers of two messages of a channel
\* interleave, any two responses dispatched in the channel are at least
\* rate_limit_seconds (30 s) apart.
C27_OneResponsePerWindow ==
    \A x, y \in sent :
        ( /\ x # y
          /\ x.chan = y.chan
          /\ x.kind \in {"text", "embed", "url"}
          /\ y.kind \in {"text", "embed", "url"}
          /\ x.at <= y.at )
            => y.at - x.at >= 30

\* C28 (as claimed): the patience a channel has, were it set by a
\* `patience N` command before any message was observed there, stays the
\* channel's patience until a successful assessment or an authorized
\* `patience N` command in that channel changes it.
C28_CommandPatiencePersists ==
    [][ \A c \in DOMAIN patience_level :
          patience_level'[c] # patience_level[c]
              => \E t \in Tasks :
                    /\ tasks[t].msg.chan = c
                    /\ \/ AssessmentSucceeds(t)
                       \/ AuthorizedPatienceCommand(t) ]_vars

\* C29 (as claimed): while allow_gifs is false no media message, embed
\* or URL fallback, is dispatched, whatever the generated text holds.
C29_NoMediaWhileDisabled ==
    [][ \A x \in sent' \ sent :
          x.kind \in {"embed", "url"} => allow_gifs ]_vars

====
